---- MODULE Spec2Model ----
(***************************************************************************)
(* Model of databricks-util:                                               *)
(*   - extraer_responsabilidades_rut (FE_annotate_RUT_y_210.py): fetch of  *)
(*     the int_personas rows of the input identifiers, de-duplication per  *)
(*     NUM_NIT and inner join back onto the input rows;                    *)
(*   - lookup_name_by_year (post_proceso_consultas.py): resolution of a    *)
(*     variable code and a tax year against the DF_METADATA table.         *)
(* Text values are sequences of one-character strings, so that strip,      *)
(* casefold, regular-expression matching, int() and str() are computed.    *)
(* Accented letters of the source's literals are written without accent.   *)
(***************************************************************************)
EXTENDS Integers, Sequences, FiniteSets, TLC

VARIABLES
    pc,                              \* the caller: "idle" or "returned"
    int_personas,                    \* the registry table in the store
    input_spark_df,                  \* the input rows of the last enrich call
    df_infor_rut_int_personas,       \* the rows the query fetched
    df_infor_rut_int_personas_clean, \* one row per NUM_NIT, with marca_resp_52
    df_joined_final,                 \* the rows the enrich call returned
    DF_METADATA,                     \* the module-level metadata table
    call,                            \* the arguments of the last lookup call
    result                           \* what the last lookup call returned

vars == <<pc, int_personas, input_spark_df, df_infor_rut_int_personas,
          df_infor_rut_int_personas_clean, df_joined_final,
          DF_METADATA, call, result>>

enrichVars == <<int_personas, input_spark_df, df_infor_rut_int_personas,
                df_infor_rut_int_personas_clean, df_joined_final>>

lookupVars == <<DF_METADATA, call, result>>

(***************************************************************************)
(* Text                                                                    *)
(***************************************************************************)
UpperCase == <<"A","B","C","D","E","F","G","H","I","J","K","L","M",
               "N","O","P","Q","R","S","T","U","V","W","X","Y","Z">>

LowerCase == <<"a","b","c","d","e","f","g","h","i","j","k","l","m",
               "n","o","p","q","r","s","t","u","v","w","x","y","z">>

DigitChars == <<"0","1","2","3","4","5","6","7","8","9">>

WhiteSpace == {" ", "\t", "\n"}

\* str.casefold / (?i) on one character.
FoldChar(c) ==
    IF \E i \in 1..Len(UpperCase) : UpperCase[i] = c
    THEN LowerCase[CHOOSE i \in 1..Len(UpperCase) : UpperCase[i] = c]
    ELSE c

casefold(s) == [i \in 1..Len(s) |-> FoldChar(s[i])]

IsDigit(c) == \E i \in 1..Len(DigitChars) : DigitChars[i] = c

DigitValue(c) == (CHOOSE i \in 1..Len(DigitChars) : DigitChars[i] = c) - 1

\* str.strip(): leading and trailing white space removed.
strip(s) ==
    LET keep == {i \in 1..Len(s) : s[i] \notin WhiteSpace} IN
    IF keep = {} THEN <<>>
    ELSE LET lo == CHOOSE i \in keep : \A j \in keep : i <= j
             hi == CHOOSE i \in keep : \A j \in keep : j <= i
         IN SubSeq(s, lo, hi)

\* str.rstrip("_")
RECURSIVE rstrip_underscore(_)
rstrip_underscore(s) ==
    IF s # <<>> /\ s[Len(s)] = "_"
    THEN rstrip_underscore(SubSeq(s, 1, Len(s) - 1))
    ELSE s

\* int() of a run of decimal digits.
RECURSIVE int(_)
int(ds) ==
    IF ds = <<>> THEN 0
    ELSE 10 * int(SubSeq(ds, 1, Len(ds) - 1)) + DigitValue(ds[Len(ds)])

\* str() of a natural number.
RECURSIVE str(_)
str(n) ==
    IF n < 10 THEN <<DigitChars[n + 1]>>
    ELSE str(n \div 10) \o <<DigitChars[(n % 10) + 1]>>

\* rlike: the pattern (already folded) occurs somewhere in the folded text.
rlike_ci(s, pattern) ==
    \E k \in 0..(Len(s) - Len(pattern)) :
        casefold(SubSeq(s, k + 1, k + Len(pattern))) = pattern

(***************************************************************************)
(* extraer_responsabilidades_rut                                           *)
(***************************************************************************)
MaxRegistryRows == 3     \* rows of int_personas
MaxInputRows == 3        \* rows of the input dataframe

Nits == {1, 2}                   \* NUM_NIT values of the registry
Identifiers == Nits \cup {3}     \* numero_identificacion values of the input
Dates == {1, 2}                  \* FEC_CAMBIO values

PersonaNatural == <<"P","E","R","S","O","N","A"," ","N","A","T","U","R","A","L">>
PersonaJuridica == <<"p","e","r","s","o","n","a"," ","j","u","r","i","d","i","c","a">>
Sucesion == <<"S","u","c","e","s","i","o","n">>

\* (IND_TIENE_RESP_52, NOM_TIPO_CONTRIBUYENTE) of the registry rows drawn.
Attributes == {<<TRUE, PersonaNatural>>, <<FALSE, PersonaJuridica>>,
               <<FALSE, Sucesion>>}

RegistryRows ==
    {[NUM_NIT |-> n, FEC_CAMBIO |-> f, IND_TIENE_RESP_52 |-> a[1],
      NOM_TIPO_CONTRIBUYENTE |-> a[2]] : n \in Nits, f \in Dates, a \in Attributes}

RECURSIVE SubsetsUpTo(_, _)
SubsetsUpTo(S, k) ==
    IF k = 0 THEN {{}}
    ELSE LET smaller == SubsetsUpTo(S, k - 1) IN
         smaller \cup {T \cup {x} : T \in smaller, x \in S}

RECURSIVE SeqsUpTo(_, _)
SeqsUpTo(S, k) ==
    IF k = 0 THEN {<<>>}
    ELSE LET shorter == SeqsUpTo(S, k - 1) IN
         shorter \cup {Append(q, x) : q \in shorter, x \in S}

\* The input dataframes: at least one row, identifiers may repeat.
InputFrames == SeqsUpTo(Identifiers, MaxInputRows) \ {<<>>}

\* select('numero_identificacion').distinct().collect()
nits_list(input) == {input[i] : i \in DOMAIN input}

\* SELECT DISTINCT ... WHERE NUM_NIT IN (nits): distinct rows, so a set.
query_int_personas(table, nits) == {r \in table : r.NUM_NIT \in nits}

group(df, nit) == {r \in df : r.NUM_NIT = nit}

\* groupBy('NUM_NIT').count().filter(count > 1)
duplicated_nits_df(df) ==
    {n \in {r.NUM_NIT : r \in df} : Cardinality(group(df, n)) > 1}

\* a plausible slip: how='inner' in place of how='left_anti'
df_non_dupes_inner(df) == {r \in df : r.NUM_NIT \in duplicated_nits_df(df)}

\* join(duplicated_nits_df, how='left_anti')
df_non_dupes(df) == {r \in df : r.NUM_NIT \notin duplicated_nits_df(df)}

\* join(duplicated_nits_df, how='inner')
df_dupes(df) == {r \in df : r.NUM_NIT \in duplicated_nits_df(df)}

\* a plausible slip: ascending order, the oldest row ranked first
rank_one_asc(g) == {r \in g : \A s \in g : r.FEC_CAMBIO <= s.FEC_CAMBIO}

\* row_number() over (partition by NUM_NIT order by FEC_CAMBIO desc) = 1:
\* the rows of the group that may be ranked first.  Rows with equal
\* FEC_CAMBIO are ordered as the engine happens to meet them.
rank_one(g) == {r \in g : \A s \in g : s.FEC_CAMBIO <= r.FEC_CAMBIO}

\* row_number() over (partition by NUM_NIT order by
\* monotonically_increasing_id()) = 1: the ids follow the physical order of
\* the union, which nothing fixes among the rows of one NUM_NIT.
first_occurrence(g) == g

\* The frames that keeping one of the candidate rows of each NUM_NIT can give.
OnePerNit(candidates) ==
    LET ns == DOMAIN candidates
        rows == UNION {candidates[n] : n \in ns}
    IN {{f[n] : n \in ns} :
           f \in {h \in [ns -> rows] : \A n \in ns : h[n] \in candidates[n]}}

\* filter(rank == 1).drop("rank")
df_dupes_cleaned(df) ==
    LET dupes == df_dupes(df) IN
    OnePerNit([n \in {r.NUM_NIT : r \in dupes} |-> rank_one(group(dupes, n))])

\* filter(rn == 1).drop("rn")
drop_duplicates_first(df) ==
    OnePerNit([n \in {r.NUM_NIT : r \in df} |-> first_occurrence(group(df, n))])

\* a plausible slip: the fetched rows joined as they are
clean_registry_raw(df) == {df}

\* Lines 47-87: every outcome of the two de-duplication passes.
clean_registry(df) ==
    UNION {drop_duplicates_first(df_non_dupes(df) \cup cleaned) :
           cleaned \in df_dupes_cleaned(df)}

\* F.when(IND_TIENE_RESP_52 == True, 'SI').otherwise('No')
marca_resp_52(r) == IF r.IND_TIENE_RESP_52 = TRUE THEN <<"S","I">> ELSE <<"N","o">>

\* The rlike cascade on NOM_TIPO_CONTRIBUYENTE.
normaliza_tipo(s) ==
    IF rlike_ci(s, <<"p","e","r","s","o","n","a"," ","n","a","t">>)
    THEN <<"P","e","r","s","o","n","a"," ","N","a","t","u","r","a","l">>
    ELSE IF rlike_ci(s, <<"p","e","r","s","o","n","a"," ","j","u","r">>)
    THEN <<"P","e","r","s","o","n","a"," ","J","u","r","i","d","i","c","a">>
    ELSE s

\* One row of the join: input row i with registry row r.
joined_row(input, i, r) ==
    [fila |-> i, numero_identificacion |-> input[i], NUM_NIT |-> r.NUM_NIT,
     FEC_CAMBIO |-> r.FEC_CAMBIO, IND_TIENE_RESP_52 |-> r.IND_TIENE_RESP_52,
     marca_resp_52 |-> marca_resp_52(r),
     NOM_TIPO_CONTRIBUYENTE |-> normaliza_tipo(r.NOM_TIPO_CONTRIBUYENTE),
     registro |-> r]

NullRow == [NUM_NIT |-> 0, FEC_CAMBIO |-> 0, IND_TIENE_RESP_52 |-> FALSE,
            NOM_TIPO_CONTRIBUYENTE |-> <<>>]

\* a plausible slip: how='left', unmatched input rows kept with nulls
df_joined_left(input, clean) ==
    UNION {{joined_row(input, i, r) : r \in {x \in clean : x.NUM_NIT = input[i]}} :
           i \in DOMAIN input}
    \cup {joined_row(input, i, NullRow) :
            i \in {j \in DOMAIN input : \A x \in clean : x.NUM_NIT # input[j]}}

\* input_spark_df.join(clean, numero_identificacion == NUM_NIT, how='inner')
\* The output is a multiset: fila (the input row) and registro (the registry
\* row joined) tell its rows apart.
df_joined(input, clean) ==
    UNION {{joined_row(input, i, r) : r \in {x \in clean : x.NUM_NIT = input[i]}} :
           i \in DOMAIN input}

NoFrame == <<>>

extraer_responsabilidades_rut(input) ==
    /\ pc = "idle"
    /\ LET fetched == query_int_personas(int_personas, nits_list(input)) IN
       \E clean \in clean_registry(fetched) :
          /\ input_spark_df' = input
          /\ df_infor_rut_int_personas' = fetched
          /\ df_infor_rut_int_personas_clean' = clean
          /\ df_joined_final' = df_joined(input, clean)
    /\ pc' = "returned"
    /\ UNCHANGED <<int_personas, lookupVars>>

\* The caller drops the frames of the call: they live for one invocation.
ReturnEnrich ==
    /\ pc = "returned"
    /\ input_spark_df # NoFrame
    /\ pc' = "idle"
    /\ input_spark_df' = NoFrame
    /\ df_infor_rut_int_personas' = {}
    /\ df_infor_rut_int_personas_clean' = {}
    /\ df_joined_final' = {}
    /\ UNCHANGED <<int_personas, lookupVars>>

NoCall == [made |-> FALSE]
NoResult == [kind |-> "none"]

InitEnrich ==
    /\ pc = "idle"
    /\ int_personas \in SubsetsUpTo(RegistryRows, MaxRegistryRows)
    /\ input_spark_df = NoFrame
    /\ df_infor_rut_int_personas = {}
    /\ df_infor_rut_int_personas_clean = {}
    /\ df_joined_final = {}
    /\ DF_METADATA = <<>>
    /\ call = NoCall
    /\ result = NoResult

NextEnrich ==
    \/ \E input \in InputFrames : extraer_responsabilidades_rut(input)
    \/ ReturnEnrich

SpecEnrich == InitEnrich /\ [][NextEnrich]_vars

(***************************************************************************)
(* lookup_name_by_year                                                     *)
(***************************************************************************)
\* A cell of the metadata table: an integer, a float with an integral value,
\* a text, NaN (an empty cell), and after coercion pd.NA; None is what
\* row.get gives for a column the table does not have.
IntCell(n) == [t |-> "int", n |-> n, s |-> <<>>]
FloatCell(n) == [t |-> "float", n |-> n, s |-> <<>>]
TextCell(s) == [t |-> "str", n |-> 0, s |-> s]
NaN == [t |-> "nan", n |-> 0, s |-> <<>>]
NA == [t |-> "NA", n |-> 0, s |-> <<>>]
None == [t |-> "None", n |-> 0, s |-> <<>>]
Raised == [t |-> "raise", n |-> 0, s |-> <<>>]

ColFormato == "Codigo del Formato"
ColVariable == "Codigo de la Variable"
ColDesde == "Ano Gravable Desde"
ColHasta == "Ano Gravable Hasta"
ColCasilla == "Descripcion de la Casilla"
ColDescVariable == "Descripcion de la Variable"
ColNumCasilla == "Numero Casilla"

Columns == {ColFormato, ColVariable, ColDesde, ColHasta, ColCasilla,
            ColDescVariable, ColNumCasilla}

MetaRow(formato, variable, desde, hasta, casilla, descripcion, numero) ==
    [c \in Columns |->
        CASE c = ColFormato -> formato
          [] c = ColVariable -> variable
          [] c = ColDesde -> desde
          [] c = ColHasta -> hasta
          [] c = ColCasilla -> casilla
          [] c = ColDescVariable -> descripcion
          [] OTHER -> numero]

\* The default of the compose_fields parameter.
DefaultComposeFields == <<ColDescVariable, ColNumCasilla, ColDesde, ColHasta>>

AllDigits(s) == \A i \in 1..Len(s) : IsDigit(s[i])

\* a plausible slip: the flag re.IGNORECASE left out
MatchAt_case(s, k) ==
    /\ k + 4 < Len(s)
    /\ \A i \in 1..k : s[i] # "\n"
    /\ SubSeq(s, k + 1, k + 4) = <<"V","A","R","_">>
    /\ AllDigits(SubSeq(s, k + 5, Len(s)))

\* re.search(r'^(.*)VAR_(\d+)$', s, flags=re.IGNORECASE) with the greedy
\* group 1 ending after k characters: "." matches anything but a line break.
MatchAt(s, k) ==
    /\ k + 4 < Len(s)
    /\ \A i \in 1..k : s[i] # "\n"
    /\ casefold(SubSeq(s, k + 1, k + 4)) = <<"v","a","r","_">>
    /\ AllDigits(SubSeq(s, k + 5, Len(s)))

\* The match object: group 1 is greedy, the longest prefix that matches.
re_search(s) ==
    LET ks == {k \in 0..Len(s) : MatchAt(s, k)} IN
    IF ks = {} THEN [matched |-> FALSE, group1 |-> <<>>, group2 |-> <<>>]
    ELSE LET k == CHOOSE x \in ks : \A y \in ks : y <= x IN
         [matched |-> TRUE, group1 |-> SubSeq(s, 1, k),
          group2 |-> SubSeq(s, k + 5, Len(s))]

\* pd.to_numeric on one cell.  A text that is a run of digits is the number;
\* any other text is NaN under errors='coerce' and raises under 'raise'.
to_numeric(cell, errors) ==
    IF cell.t = "str"
    THEN IF cell.s # <<>> /\ AllDigits(cell.s) THEN IntCell(int(cell.s))
         ELSE IF errors = "coerce" THEN NaN ELSE Raised
    ELSE cell

\* .astype('Int64') on one cell.
astype_Int64(cell) ==
    CASE cell.t = "int" -> cell
      [] cell.t = "float" -> IntCell(cell.n)
      [] cell.t = "raise" -> Raised
      [] OTHER -> NA

\* a plausible slip: errors='raise', the default of pd.to_numeric
coerce_Int64_raise(cell) == astype_Int64(to_numeric(cell, "raise"))

\* pd.to_numeric(d[col], errors='coerce').astype('Int64')
coerce_Int64(cell) == astype_Int64(to_numeric(cell, "coerce"))

\* astype(str).str.strip().str.casefold().eq('vigente')
mask_vig(cell) ==
    /\ cell.t = "str"
    /\ casefold(strip(cell.s)) = <<"v","i","g","e","n","t","e">>

\* Lines 116-125 on one row of d.
normalize_row(row, current_year) ==
    [row EXCEPT
        ![ColHasta] = coerce_Int64(IF mask_vig(@) THEN IntCell(current_year) ELSE @),
        ![ColDesde] = coerce_Int64(@),
        ![ColVariable] = coerce_Int64(@)]

normalize(d, current_year) ==
    [i \in 1..Len(d) |-> normalize_row(d[i], current_year)]

raises(d) ==
    \E i \in 1..Len(d) : \E c \in {ColHasta, ColDesde, ColVariable} :
        d[i][c].t = "raise"

\* Three-valued logic of the nullable boolean arrays: "T", "F", "N" (pd.NA).
And3(a, b) ==
    IF a = "F" \/ b = "F" THEN "F" ELSE IF a = "N" \/ b = "N" THEN "N" ELSE "T"

Or3(a, b) ==
    IF a = "T" \/ b = "T" THEN "T" ELSE IF a = "N" \/ b = "N" THEN "N" ELSE "F"

Bool3(b) == IF b THEN "T" ELSE "F"

\* column == value, on a column the call did not coerce
eq_raw(cell, value) == Bool3(cell.t \in {"int", "float"} /\ cell.n = value)

\* comparisons of an Int64 column with a number: pd.NA where the cell is
eq_Int64(cell, value) == IF cell.t = "NA" THEN "N" ELSE Bool3(cell.n = value)

le_Int64(cell, value) == IF cell.t = "NA" THEN "N" ELSE Bool3(cell.n <= value)

ge_Int64(cell, value) == IF cell.t = "NA" THEN "N" ELSE Bool3(cell.n >= value)

\* a plausible slip: the valid-to bound tested the wrong way round
mask_row_swapped(row, format_id, var_number, anogravable) ==
    And3(And3(And3(And3(eq_raw(row[ColFormato], format_id),
                        eq_Int64(row[ColVariable], var_number)),
                   Bool3(row[ColDesde].t # "NA")),
              le_Int64(row[ColDesde], anogravable)),
         Or3(Bool3(row[ColHasta].t = "NA"), le_Int64(row[ColHasta], anogravable)))

\* Lines 128-134 on one row of the normalized copy.
mask_row(row, format_id, var_number, anogravable) ==
    And3(And3(And3(And3(eq_raw(row[ColFormato], format_id),
                        eq_Int64(row[ColVariable], var_number)),
                   Bool3(row[ColDesde].t # "NA")),
              le_Int64(row[ColDesde], anogravable)),
         Or3(Bool3(row[ColHasta].t = "NA"), ge_Int64(row[ColHasta], anogravable)))

\* d.loc[mask]: the positions kept, a pd.NA in the mask counting as False.
hit(d, format_id, var_number, anogravable) ==
    {i \in 1..Len(d) : mask_row(d[i], format_id, var_number, anogravable) = "T"}

\* a plausible slip: hit.iloc[-1]
iloc_last(h) == CHOOSE i \in h : \A j \in h : j <= i

\* hit.iloc[0]
iloc_0(h) == CHOOSE i \in h : \A j \in h : i <= j

\* row.get(col)
row_get(row, col) == IF col \in DOMAIN row THEN row[col] ELSE None

\* pd.notna(val)
notna(cell) == cell.t \in {"int", "float", "str"}

\* str(val)
str_cell(cell) ==
    CASE cell.t = "int" -> str(cell.n)
      [] cell.t = "float" -> str(cell.n) \o <<".", "0">>
      [] OTHER -> cell.s

\* a plausible slip: the pd.notna test left out
parts_unfiltered(row, compose_fields) ==
    [i \in 1..Len(compose_fields) |-> strip(str_cell(row_get(row, compose_fields[i])))]

\* Lines 152-156: the loop over compose_fields.
RECURSIVE parts(_, _)
parts(row, compose_fields) ==
    IF compose_fields = <<>> THEN <<>>
    ELSE LET n == Len(compose_fields)
             val == row_get(row, compose_fields[n])
             before == parts(row, SubSeq(compose_fields, 1, n - 1))
         IN IF notna(val) THEN Append(before, strip(str_cell(val))) ELSE before

\* sep.join(ps)
RECURSIVE join(_, _)
join(sep, ps) ==
    IF ps = <<>> THEN <<>>
    ELSE IF Len(ps) = 1 THEN ps[1]
    ELSE join(sep, SubSeq(ps, 1, Len(ps) - 1)) \o sep \o ps[Len(ps)]

\* Line 159.
composed_name(ps, sep) == IF ps # <<>> THEN TextCell(join(sep, ps)) ELSE None

ReturnNone == [kind |-> "None"]
ReturnRaise == [kind |-> "raise"]

\* a plausible slip: d = DF_METADATA, no copy taken
DataFrame_alias(ref) == ref

\* DF_METADATA.copy(): the reference of a new object
DataFrame_copy(ref) == "d"

\* The objects after lines 113-125: the module's table and what d refers to.
\* The assignments of lines 118-125 write to the object d refers to.
objects_after_normalize(table, current_year) ==
    LET dref == DataFrame_copy("DF_METADATA")
        objects == [o \in {"DF_METADATA", dref} |-> table]
        coerced == normalize(objects[dref], current_year)
        written == IF raises(coerced) THEN objects
                   ELSE [objects EXCEPT ![dref] = coerced]
    IN [DF_METADATA |-> written["DF_METADATA"], d |-> written[dref],
        raise |-> raises(coerced)]

\* What the call returns, given the normalized copy d.
lookup_return(d, format_id, m, anogravable, compose_fields, sep) ==
    LET prefix == rstrip_underscore(m.group1)
        var_number == int(m.group2)
        h == hit(d, format_id, var_number, anogravable)
    IN IF h = {} THEN ReturnNone
       ELSE LET row == d[iloc_0(h)] IN
            [kind |-> "dict",
             name_var |-> row_get(row, ColCasilla),
             composed_name |-> composed_name(parts(row, compose_fields), sep),
             meta |-> [prefix |-> prefix, var_number |-> var_number]]

\* The value of lookup_name_by_year on a table.
lookup_value(table, format_id, var_code, anogravable, compose_fields, sep, current_year) ==
    LET m == re_search(strip(var_code))
        objects == objects_after_normalize(table, current_year)
    IN IF ~m.matched THEN ReturnNone
       ELSE IF objects.raise THEN ReturnRaise
       ELSE lookup_return(objects.d, format_id, m, anogravable, compose_fields, sep)

lookup_name_by_year(format_id, var_code, anogravable, compose_fields, sep, current_year) ==
    /\ pc = "idle"
    /\ LET m == re_search(strip(var_code))
           objects == objects_after_normalize(DF_METADATA, current_year)
       IN /\ DF_METADATA' = IF m.matched THEN objects.DF_METADATA ELSE DF_METADATA
          /\ result' = lookup_value(DF_METADATA, format_id, var_code, anogravable,
                                    compose_fields, sep, current_year)
    /\ call' = [made |-> TRUE, format_id |-> format_id, var_code |-> var_code,
                anogravable |-> anogravable, compose_fields |-> compose_fields,
                sep |-> sep, current_year |-> current_year]
    /\ pc' = "returned"
    /\ UNCHANGED enrichVars

\* The caller takes the returned value and is ready for the next lookup.
ReturnLookup ==
    /\ pc = "returned"
    /\ call # NoCall
    /\ pc' = "idle"
    /\ call' = NoCall
    /\ result' = NoResult
    /\ UNCHANGED <<DF_METADATA, enrichVars>>

(***************************************************************************)
(* The tables and the calls drawn                                          *)
(***************************************************************************)
MaxMetaRows == 2         \* rows of DF_METADATA

Vigente == <<"V","i","g","e","n","t","e">>
VigentePadded == <<" ","V","I","G","E","N","T","E"," ">>
NoAplica == <<"N","/","A">>
CasillaA == TextCell(<<"I","n","g","r","e","s","o","s">>)
CasillaB == TextCell(<<"C","o","s","t","o","s">>)
Underscore == <<"_">>

VAR_0033 == <<"V","A","R","_","0","0","3","3">>
VARX_5 == <<"V","A","R","X","_","5">>

\* Rows that differ in what the filter reads.
FilterRows ==
    {MetaRow(IntCell(210), IntCell(33), IntCell(2020), hasta, CasillaA, NaN, NaN) :
        hasta \in {IntCell(2021), NaN, TextCell(Vigente), TextCell(VigentePadded),
                   TextCell(NoAplica)}}
    \cup
    {MetaRow(IntCell(210), IntCell(33), IntCell(2023), hasta, CasillaB, NaN, NaN) :
        hasta \in {IntCell(2021), NaN, TextCell(Vigente)}}
    \cup
    {MetaRow(IntCell(210), variable, IntCell(2020), NaN, CasillaA, NaN, NaN) :
        variable \in {IntCell(7), TextCell(<<"3","3">>), TextCell(<<"x">>)}}
    \cup
    {MetaRow(IntCell(210), IntCell(33), desde, NaN, CasillaB, NaN, NaN) :
        desde \in {NaN, TextCell(NoAplica)}}
    \cup
    {MetaRow(IntCell(110), IntCell(33), IntCell(2020), NaN, CasillaA, NaN, NaN)}

InitLookupWith(tables) ==
    /\ pc = "idle"
    /\ int_personas = {}
    /\ input_spark_df = NoFrame
    /\ df_infor_rut_int_personas = {}
    /\ df_infor_rut_int_personas_clean = {}
    /\ df_joined_final = {}
    /\ DF_METADATA \in tables
    /\ call = NoCall
    /\ result = NoResult

InitLookup == InitLookupWith(SeqsUpTo(FilterRows, MaxMetaRows))

NextLookup ==
    \/ \E format_id \in {210, 999}, var_code \in {VAR_0033, VARX_5},
          anogravable \in {2019, 2020, 2022, 2024}, current_year \in {2021, 2024} :
          lookup_name_by_year(format_id, var_code, anogravable,
                              DefaultComposeFields, Underscore, current_year)
    \/ ReturnLookup

SpecLookup == InitLookup /\ [][NextLookup]_vars

\* Rows that differ in what the composed name reads.
ComposeRows ==
    {MetaRow(IntCell(210), IntCell(33), IntCell(2020), hasta, CasillaA, descripcion, numero) :
        hasta \in {NaN, TextCell(Vigente)},
        descripcion \in {TextCell(<<" ","R","e","n","t","a"," ">>), TextCell(<<" ">>), NaN},
        numero \in {IntCell(33), FloatCell(33), NaN}}

ComposeFieldLists ==
    {DefaultComposeFields, <<ColDescVariable, ColNumCasilla>>,
     <<ColNumCasilla, ColDescVariable>>, <<"Otra Columna", ColNumCasilla>>, <<>>}

InitCompose == InitLookupWith(SeqsUpTo(ComposeRows, MaxMetaRows))

NextCompose ==
    \/ \E compose_fields \in ComposeFieldLists, sep \in {Underscore, <<" ","-"," ">>} :
          lookup_name_by_year(210, VAR_0033, 2022, compose_fields, sep, 2024)
    \/ ReturnLookup

SpecCompose == InitCompose /\ [][NextCompose]_vars

\* Variable codes put together from a lead, a prefix, a token, digits, a tail.
VarCodes ==
    {lead \o prefix \o token \o digits \o tail :
        lead \in {<<>>, <<" ">>},
        prefix \in {<<>>, <<"F","E","_">>, <<"F","E">>, <<"f","e","_","_">>,
                    <<"V","A","R","_","1","_">>},
        token \in {<<"V","A","R","_">>, <<"v","a","r","_">>, <<"V","a","r","_">>,
                   <<"V","A","R","X","_">>, <<"V","A","R">>, <<"A","R","_">>},
        digits \in {<<>>, <<"7">>, <<"0","0","0","7">>, <<"1","2">>, <<"5">>,
                    <<"0">>, <<"1","a">>},
        tail \in {<<>>, <<" ">>, <<"\n">>, <<"x">>, <<"_">>}}

\* One open-ended row per variable number the codes name.
ParseTable ==
    [i \in 1..5 |->
        MetaRow(IntCell(210), IntCell(<<0, 1, 5, 7, 12>>[i]), IntCell(2020), NaN,
                CasillaA, NaN, NaN)]

InitParse == InitLookupWith({<<>>, ParseTable, SubSeq(ParseTable, 4, 4)})

NextParse ==
    \/ \E var_code \in VarCodes :
          lookup_name_by_year(210, var_code, 2022, DefaultComposeFields, Underscore, 2024)
    \/ ReturnLookup

SpecParse == InitParse /\ [][NextParse]_vars

(***************************************************************************)
(* The two functions together                                              *)
(***************************************************************************)
Init == InitEnrich \/ InitLookup

Next == NextEnrich \/ NextLookup

Spec == Init /\ [][Next]_vars

(***************************************************************************)
(* Properties of extraer_responsabilidades_rut                             *)
(***************************************************************************)
EnrichReturned == pc = "returned" /\ input_spark_df # NoFrame

FetchedNits == {r.NUM_NIT : r \in df_infor_rut_int_personas}

InputRowsOf(n) == {i \in DOMAIN input_spark_df : input_spark_df[i] = n}

OutputRowsOf(n) == {o \in df_joined_final : o.numero_identificacion = n}

\* C1 as stated: the joined output holds at most one row per identifier that
\* exists in the fetched registry rows, whatever the input rows are.
C1_AtMostOneRowPerIdentifier ==
    EnrichReturned =>
        \A n \in FetchedNits : Cardinality(OutputRowsOf(n)) <= 1

\* C1 amended: per identifier of the fetched rows the joined output holds at
\* most as many rows as the input has rows with that identifier, all of them
\* carrying one and the same registry row; so at most one row when the
\* identifier occurs once in the input.
C1_AtMostOneRowPerInputRow ==
    EnrichReturned =>
        \A n \in FetchedNits :
            /\ Cardinality(OutputRowsOf(n)) <= Cardinality(InputRowsOf(n))
            /\ Cardinality({o.registro : o \in OutputRowsOf(n)}) <= 1
            /\ Cardinality(InputRowsOf(n)) = 1 => Cardinality(OutputRowsOf(n)) <= 1

C1_Witness ==
    /\ EnrichReturned
    /\ \E n \in FetchedNits :
          /\ Cardinality(group(df_infor_rut_int_personas, n)) > 1
          /\ Cardinality(InputRowsOf(n)) > 1
          /\ Cardinality(OutputRowsOf(n)) = Cardinality(InputRowsOf(n))

\* C2: the cleaned registry set holds exactly one row, a fetched one, for every
\* NUM_NIT of the fetched rows and no row for any other NUM_NIT.
C2_OneCleanRowPerFetchedNit ==
    EnrichReturned =>
        /\ df_infor_rut_int_personas_clean \subseteq df_infor_rut_int_personas
        /\ \A n \in Identifiers :
              Cardinality(group(df_infor_rut_int_personas_clean, n))
                  = IF n \in FetchedNits THEN 1 ELSE 0

\* A NUM_NIT with one row beside a NUM_NIT with two rows of equal FEC_CAMBIO.
C2_Witness ==
    /\ EnrichReturned
    /\ \E n \in FetchedNits : Cardinality(group(df_infor_rut_int_personas, n)) = 1
    /\ \E n \in FetchedNits :
          \E r, s \in group(df_infor_rut_int_personas, n) :
              r # s /\ r.FEC_CAMBIO = s.FEC_CAMBIO
    /\ Cardinality(df_infor_rut_int_personas_clean) = 2

DistinctDates(g) == \A r, s \in g : r # s => r.FEC_CAMBIO # s.FEC_CAMBIO

\* C3: for a NUM_NIT with several fetched rows of pairwise distinct
\* FEC_CAMBIO, the row kept in the cleaned set, and joined to the output, is
\* the one with the maximum FEC_CAMBIO.
C3_MostRecentRowRetained ==
    EnrichReturned =>
        \A n \in FetchedNits :
            LET g == group(df_infor_rut_int_personas, n) IN
            (Cardinality(g) > 1 /\ DistinctDates(g)) =>
                /\ \A r \in group(df_infor_rut_int_personas_clean, n) :
                      \A s \in g : s.FEC_CAMBIO <= r.FEC_CAMBIO
                /\ \A o \in OutputRowsOf(n) :
                      /\ o.registro \in g
                      /\ \A s \in g : s.FEC_CAMBIO <= o.FEC_CAMBIO

C3_Witness ==
    /\ EnrichReturned
    /\ \E n \in FetchedNits :
          LET g == group(df_infor_rut_int_personas, n) IN
          /\ Cardinality(g) > 1
          /\ DistinctDates(g)
          /\ OutputRowsOf(n) # {}
          /\ \E r \in df_infor_rut_int_personas_clean :
                r.NUM_NIT = n /\ \E s \in g : s.FEC_CAMBIO < r.FEC_CAMBIO

MatchedInput(i) ==
    \E r \in df_infor_rut_int_personas : r.NUM_NIT = input_spark_df[i]

\* C4: the joined output has exactly one row for each input row whose
\* identifier is the NUM_NIT of a fetched row, none for the other input rows,
\* and no row that comes from no input row.
C4_OneRowPerMatchedInputRow ==
    EnrichReturned =>
        /\ \A i \in DOMAIN input_spark_df :
              Cardinality({o \in df_joined_final : o.fila = i})
                  = IF MatchedInput(i) THEN 1 ELSE 0
        /\ \A o \in df_joined_final :
              /\ o.fila \in DOMAIN input_spark_df
              /\ o.numero_identificacion = input_spark_df[o.fila]
              /\ o.NUM_NIT = o.numero_identificacion

\* A repeated matched identifier with several registry rows, beside an
\* unmatched input row.
C4_Witness ==
    /\ EnrichReturned
    /\ \E i, j \in DOMAIN input_spark_df :
          /\ i # j
          /\ input_spark_df[i] = input_spark_df[j]
          /\ Cardinality(group(df_infor_rut_int_personas, input_spark_df[i])) > 1
    /\ \E i \in DOMAIN input_spark_df : ~MatchedInput(i)
    /\ Cardinality(df_joined_final) = 2

(***************************************************************************)
(* Properties of lookup_name_by_year                                       *)
(***************************************************************************)
LookupReturned == pc = "returned" /\ call.made

\* What a cell of a numeric column stands for: "number" with its value, or
\* "absent".  A run of digits in a text is a number; current_year is what the
\* word Vigente stands for where the column admits it.
Denotes(cell, vigente_as) ==
    CASE cell.t \in {"int", "float"} -> [is |-> "number", n |-> cell.n]
      [] cell.t = "str" /\ cell.s # <<>> /\ \A i \in 1..Len(cell.s) : IsDigit(cell.s[i])
            -> [is |-> "number", n |-> int(cell.s)]
      [] cell.t = "str" /\ vigente_as >= 0
            /\ \E a, b \in 0..Len(cell.s) :
                  /\ a + 7 + b = Len(cell.s)
                  /\ \A i \in 1..a : cell.s[i] \in WhiteSpace
                  /\ \A i \in (a + 8)..Len(cell.s) : cell.s[i] \in WhiteSpace
                  /\ casefold(SubSeq(cell.s, a + 1, a + 7)) = casefold(Vigente)
            -> [is |-> "number", n |-> vigente_as]
      [] OTHER -> [is |-> "absent", n |-> 0]

\* The filter as the claims word it, on a row of the table as loaded.
RowSatisfiesFilter(row, format_id, number, tax_year, current_year) ==
    LET formato == Denotes(row[ColFormato], -1)
        variable == Denotes(row[ColVariable], -1)
        desde == Denotes(row[ColDesde], -1)
        hasta == Denotes(row[ColHasta], current_year)
    IN /\ row[ColFormato].t # "str" /\ formato.is = "number" /\ formato.n = format_id
       /\ variable.is = "number" /\ variable.n = number
       /\ desde.is = "number" /\ desde.n <= tax_year
       /\ hasta.is = "absent" \/ hasta.n >= tax_year

ParsedNumber == int(re_search(strip(call.var_code)).group2)

MatchingRows ==
    {i \in 1..Len(DF_METADATA) :
        RowSatisfiesFilter(DF_METADATA[i], call.format_id, ParsedNumber,
                           call.anogravable, call.current_year)}

\* C5: for a var_code that parses, the call returns a result, not None,
\* exactly when some row of the table has the format id, the parsed variable
\* number, a valid-from year present and <= the tax year, and a valid-to year
\* absent or >= the tax year, Vigente standing for current_year.
C5_ResultIffRowInRange ==
    (LookupReturned /\ re_search(strip(call.var_code)).matched) =>
        /\ result.kind \in {"dict", "None"}
        /\ result.kind = "dict" <=> MatchingRows # {}

\* The spec's example: a window 2020..Vigente holds 2022 when current_year is 2024.
C5_Witness ==
    /\ LookupReturned
    /\ result.kind = "dict"
    /\ call.anogravable = 2022 /\ call.current_year = 2024
    /\ Len(DF_METADATA) = 1
    /\ DF_METADATA[1][ColHasta] = TextCell(Vigente)
    /\ DF_METADATA[1][ColDesde] = IntCell(2020)

FirstMatchingRow == CHOOSE i \in MatchingRows : \A j \in MatchingRows : i <= j

\* C6: when several rows satisfy the filter, name_var and composed_name are
\* those of the first of them in the table's order.
C6_FirstMatchInTableOrder ==
    (LookupReturned /\ result.kind = "dict") =>
        /\ MatchingRows # {}
        /\ LET row == normalize_row(DF_METADATA[FirstMatchingRow], call.current_year) IN
           /\ result.name_var = DF_METADATA[FirstMatchingRow][ColCasilla]
           /\ result.composed_name
                = composed_name(parts(row, call.compose_fields), call.sep)

\* Two overlapping windows match, and the later row would give other names.
C6_Witness ==
    /\ LookupReturned
    /\ result.kind = "dict"
    /\ Cardinality(MatchingRows) = 2
    /\ \E j \in MatchingRows :
          /\ DF_METADATA[j][ColCasilla] # result.name_var
          /\ composed_name(parts(normalize_row(DF_METADATA[j], call.current_year),
                                 call.compose_fields), call.sep)
                # result.composed_name
          /\ DF_METADATA[j][ColDesde] # DF_METADATA[FirstMatchingRow][ColDesde]

\* The text before VAR_ and the digits after it, when the trimmed code is
\* [prefix]VAR_<digits> whatever the case of the letters of VAR_.
CodeForms(var_code) ==
    LET n == Len(var_code)
        \* the trimmed code is var_code[a..b]; VAR_ is at k+1..k+4
        places ==
            {p \in (1..(n + 1)) \X (0..n) \X (0..n) :
                LET a == p[1]  k == p[2]  b == p[3] IN
                /\ \A i \in 1..(a - 1) : var_code[i] \in WhiteSpace
                /\ \A i \in (b + 1)..n : var_code[i] \in WhiteSpace
                /\ a <= b /\ var_code[a] \notin WhiteSpace /\ var_code[b] \notin WhiteSpace
                /\ a - 1 <= k /\ k + 5 <= b
                /\ var_code[k + 1] \in {"V", "v"}
                /\ var_code[k + 2] \in {"A", "a"}
                /\ var_code[k + 3] \in {"R", "r"}
                /\ var_code[k + 4] = "_"
                /\ \A i \in (k + 5)..b : IsDigit(var_code[i])}
    IN {[prefix |-> SubSeq(var_code, p[1], p[2]),
         digits |-> SubSeq(var_code, p[2] + 5, p[3])] : p \in places}

\* The prefix without the underscores it ends with.
WithoutTrailingSeparator(prefix) ==
    CHOOSE q \in {SubSeq(prefix, 1, n) : n \in 0..Len(prefix)} :
        /\ q = <<>> \/ q[Len(q)] # "_"
        /\ \A i \in (Len(q) + 1)..Len(prefix) : prefix[i] = "_"

\* The number a run of digits writes.
RECURSIVE Power10(_)
Power10(k) == IF k = 0 THEN 1 ELSE 10 * Power10(k - 1)

RECURSIVE SumDigits(_, _)
SumDigits(digits, i) ==
    IF i > Len(digits) THEN 0
    ELSE DigitValue(digits[i]) * Power10(Len(digits) - i) + SumDigits(digits, i + 1)

HasRowFor(number) ==
    \E i \in 1..Len(DF_METADATA) :
        RowSatisfiesFilter(DF_METADATA[i], call.format_id, number,
                           call.anogravable, call.current_year)

FE_VAR_0007 == <<"F","E","_","V","A","R","_","0","0","0","7">>
var_12 == <<"v","a","r","_","1","2">>

\* C7: a var_code is accepted exactly when, trimmed and whatever its case, it
\* is [prefix]VAR_<digits>; then meta.var_number is the value of the digits
\* and meta.prefix the text before VAR_ without its trailing separator; any
\* other code gives None whatever the table holds.
C7_CodeParsing ==
    LookupReturned =>
        LET forms == CodeForms(call.var_code) IN
        /\ forms = {} => result = ReturnNone
        /\ \A f \in forms :
              /\ result.kind = "dict" <=> HasRowFor(SumDigits(f.digits, 1))
              /\ result.kind = "dict" =>
                    result.meta = [prefix |-> WithoutTrailingSeparator(f.prefix),
                                   var_number |-> SumDigits(f.digits, 1)]
        /\ (call.var_code = FE_VAR_0007 /\ DF_METADATA # <<>>) =>
              result.kind = "dict" /\ result.meta = [prefix |-> <<"F","E">>, var_number |-> 7]
        /\ (call.var_code = var_12 /\ Len(DF_METADATA) > 1) =>
              result.kind = "dict" /\ result.meta = [prefix |-> <<>>, var_number |-> 12]
        /\ call.var_code = VARX_5 => result = ReturnNone

C7_Witness ==
    /\ LookupReturned
    /\ call.var_code = <<" ">> \o <<"f","e","_","_">> \o var_12 \o <<"\n">>
    /\ result.kind = "dict"
    /\ result.meta = [prefix |-> <<"f","e">>, var_number |-> 12]

\* The fields of compose_fields that have a value in the row, in their order.
PresentFields(row, compose_fields) ==
    SelectSeq(compose_fields,
              LAMBDA f : f \in DOMAIN row /\ row[f].t \in {"int", "float", "str"})

RECURSIVE Joined(_, _)
Joined(texts, sep) ==
    IF texts = <<>> THEN <<>>
    ELSE IF Len(texts) = 1 THEN texts[1]
    ELSE texts[1] \o sep \o Joined(Tail(texts), sep)

C9_MetadataUnchanged == [][DF_METADATA' = DF_METADATA]_vars

\* A call has read Vigente as its current_year and the table still says Vigente.
C9_Witness ==
    /\ LookupReturned
    /\ result.kind = "dict"
    /\ Len(DF_METADATA) = 2
    /\ DF_METADATA[1][ColHasta] = TextCell(Vigente)
    /\ DF_METADATA[2][ColVariable] = TextCell(<<"3","3">>)
    /\ result.composed_name = TextCell(<<"2","0","2","0","_">> \o str(call.current_year))

NonNumericText(cell, vigente_allowed) ==
    /\ cell.t = "str"
    /\ Denotes(cell, IF vigente_allowed THEN 0 ELSE -1).is = "absent"

\* The table with every non-numeric text of the three coerced columns emptied.
WithoutNonNumericText(table) ==
    [i \in 1..Len(table) |->
        [table[i] EXCEPT
            ![ColHasta] = IF NonNumericText(@, TRUE) THEN NaN ELSE @,
            ![ColDesde] = IF NonNumericText(@, FALSE) THEN NaN ELSE @,
            ![ColVariable] = IF NonNumericText(@, FALSE) THEN NaN ELSE @]]

\* C10: non-numeric text in the validity bounds or the variable number never
\* makes the call raise; the call returns what it returns on the table with
\* those cells empty, and a row whose valid-from year or variable number is
\* such a text is never the one selected.
C10_NonNumericAsMissing ==
    LookupReturned =>
        /\ result.kind # "raise"
        /\ result = lookup_value(WithoutNonNumericText(DF_METADATA), call.format_id,
                                 call.var_code, call.anogravable, call.compose_fields,
                                 call.sep, call.current_year)
        /\ result.kind = "dict" =>
              \A i \in hit(normalize(DF_METADATA, call.current_year), call.format_id,
                           ParsedNumber, call.anogravable) :
                  /\ ~NonNumericText(DF_METADATA[i][ColDesde], FALSE)
                  /\ ~NonNumericText(DF_METADATA[i][ColVariable], FALSE)

\* The row selected has a non-numeric valid-to text, beside a row whose
\* valid-from year is a non-numeric text.
C10_Witness ==
    /\ LookupReturned
    /\ result.kind = "dict"
    /\ Len(DF_METADATA) = 2
    /\ DF_METADATA[1][ColDesde] = TextCell(NoAplica)
    /\ DF_METADATA[2][ColHasta] = TextCell(NoAplica)
    /\ call.anogravable = 2024

====
